---- MODULE Spec2Model ----
(***************************************************************************)
(* Audyssey settings of a Denon AVR receiver (src/denonavr/audyssey.py).   *)
(* The state is the eight attributes of one Audyssey object; every public  *)
(* method is one action, taken with one outcome of the receiver's          *)
(* send_post_command.  A call that ends in an exception is a step whose    *)
(* exc names the exception.                                                *)
(***************************************************************************)
EXTENDS Integers, Sequences, FiniteSets, TLC

VARIABLES
    dynamiceq, dynamiceq_control,       \* self.dynamiceq, self.dynamiceq_control
    reflevoffset, reflevoffset_control, \* self.reflevoffset, ..._control
    dynamicvol, dynamicvol_control,     \* self.dynamicvol, ..._control
    multeq, multeq_control,             \* self.multeq, ..._control
    op,            \* the public method called last
    arg,           \* its argument (None when it takes none)
    result,        \* what send_post_command did in that call
    ret,           \* the value the call returned (None when it raised)
    exc,           \* the exception the call ended in, or NoExc
    sent,          \* the commands posted to the receiver during the call
    logs,          \* the error lines logged during the call
    after_update,  \* the call before the last one was an update() returning True
    updated        \* some update() call has returned True

fields == <<dynamiceq, dynamiceq_control, reflevoffset, reflevoffset_control,
            dynamicvol, dynamicvol_control, multeq, multeq_control>>

vars == <<dynamiceq, dynamiceq_control, reflevoffset, reflevoffset_control,
          dynamicvol, dynamicvol_control, multeq, multeq_control,
          op, arg, result, ret, exc, sent, logs, after_update, updated>>

----------------------------------------------------------------------------
(* Python values.  None, True and False are their own values; every other  *)
(* value of the model is a string (a label, a wire text, an attribute).    *)

None == "<None>"

True == "<True>"

False == "<False>"

NoExc == "<no exception>"

\* str(value), as _set_audyssey applies it to the wire value
Str(value) == IF value = None THEN "None" ELSE value

Digits == {"0", "1", "2", "3", "4"}

\* int(text) of update(): a ValueError on text that is no integer literal
PyInt(text) ==
    IF text \in Digits
    THEN [exc |-> NoExc,
          value |-> CHOOSE n \in 0..4 : text = <<"0", "1", "2", "3", "4">>[n + 1]]
    ELSE [exc |-> "ValueError", value |-> 0]

\* bool(n) of an int
PyBool(n) == IF n = 0 THEN False ELSE True

----------------------------------------------------------------------------
(* The code <-> label tables.  A dict is [type |-> "dict", items |-> a     *)
(* function]; a set comprehension builds [type |-> "set", items |-> a set].*)

Dict(f) == [type |-> "dict", items |-> f]

MULTI_EQ_MAP ==
    Dict("0" :> "Off" @@ "1" :> "Flat" @@ "2" :> "L/R Bypass" @@ "3" :> "Reference")

MULTI_EQ_MAP_LABELS ==
    [type |-> "set",
     items |-> {<<MULTI_EQ_MAP.items[key], key>> : key \in DOMAIN MULTI_EQ_MAP.items}]

REF_LVL_OFFSET_MAP ==
    Dict("0" :> "0dB" @@ "1" :> "+5dB" @@ "2" :> "+10dB" @@ "3" :> "+15dB")

REF_LVL_OFFSET_MAP_LABELS ==
    [type |-> "set",
     items |-> {<<REF_LVL_OFFSET_MAP.items[key], key>> :
                    key \in DOMAIN REF_LVL_OFFSET_MAP.items}]

DYNAMIC_VOLUME_MAP ==
    Dict("0" :> "Off" @@ "1" :> "Light" @@ "2" :> "Medium" @@ "3" :> "Heavy")

DYNAMIC_VOLUME_MAP_LABELS ==
    [type |-> "set",
     items |-> {<<DYNAMIC_VOLUME_MAP.items[key], key>> :
                    key \in DOMAIN DYNAMIC_VOLUME_MAP.items}]

COMMAND_ENDPOINT == "/goform/AppCommand0300.xml"

\* obj.get(key): dict.get gives the value or None; a set has no attribute get
Get(obj, key) ==
    IF obj.type = "dict"
    THEN [exc |-> NoExc,
          value |-> IF key \in DOMAIN obj.items THEN obj.items[key] ELSE None]
    ELSE [exc |-> "AttributeError", value |-> None]

----------------------------------------------------------------------------
(* What receiver.send_post_command can do with one request: raise          *)
(* ConnectTimeout, raise another RequestException, return None, return     *)
(* bytes that are no XML, or return an XML document.  Of a document the    *)
(* code reads the first top-level cmd element (cmd: is there one), its     *)
(* text, whether it has a list child, and the list's children in order,    *)
(* each with its name attribute, its text and its control attribute.       *)

Param(name, text, control) == [name |-> name, text |-> text, control |-> control]

Failure(kind) ==
    [kind |-> kind, cmd |-> FALSE, text |-> None, list |-> FALSE, params |-> <<>>]

Document(cmd, text, list, params) ==
    [kind |-> "xml", cmd |-> cmd, text |-> text, list |-> list, params |-> params]

\* the result of a call in which send_post_command was not invoked
NotSent == Failure("not sent")

\* longest list of param elements in a response, the example response aside
MaxParams == 2

\* the param elements a response is made of
Params ==
    { Param("dynamiceq", "0", None),    Param("dynamiceq", "1", "1"),
      Param("dynamiceq", None, None),   Param("dynamiceq", "x", None),
      Param("reflevoffset", "2", "0"),  Param("multeq", "4", None),
      Param("dynamicvol", "0", "x"),    Param("bass", "1", "1") }

\* the response of the example: multeq=3, dynamiceq=1, reflevoffset=2,
\* dynamicvol=0, every control="1"
ExampleParams ==
    << Param("multeq", "3", "1"), Param("dynamiceq", "1", "1"),
       Param("reflevoffset", "2", "1"), Param("dynamicvol", "0", "1") >>

\* the lists of a response: up to MaxParams elements in any order, no
\* parameter named twice
ParamLists ==
    { ps \in UNION { [1..n -> Params] : n \in 0..MaxParams } :
        \A i, j \in DOMAIN ps : ps[i].name = ps[j].name => i = j }
    \cup {ExampleParams}

Failures ==
    { Failure("ConnectTimeout"), Failure("RequestException"),
      Failure("None"), Failure("malformed") }

\* answers to a GetAudyssey request
GetResults ==
    Failures
    \cup { Document(FALSE, None, FALSE, <<>>), Document(TRUE, None, FALSE, <<>>) }
    \cup { Document(TRUE, None, TRUE, ps) : ps \in ParamLists }

\* answers to a SetAudyssey request
SetResults ==
    Failures
    \cup { Document(FALSE, None, FALSE, <<>>), Document(TRUE, None, FALSE, <<>>),
           Document(TRUE, "OK", FALSE, <<>>), Document(TRUE, "FAIL", FALSE, <<>>) }

\* the labels the setters are called with
Settings == {"Reference", "+10dB", "Off", "Bogus"}

----------------------------------------------------------------------------
(* send_command: [response, logs].  response is NoResponse (Python's None) *)
(* or the parsed document.                                                 *)

NoResponse == Failure(None)

NoConnection == <<"No connection to end point on host", COMMAND_ENDPOINT, "host">>

MalformedXML == <<"End point on host returned malformed XML.", COMMAND_ENDPOINT, "host">>

\* a send_command whose except clauses are merged: a connect timeout is
\* logged like any other request error
send_command_one_except(res) ==
    IF res.kind \in {"ConnectTimeout", "RequestException"}
    THEN [response |-> NoResponse, logs |-> <<NoConnection>>]
    ELSE IF res.kind = "None" THEN [response |-> NoResponse, logs |-> <<>>]
    ELSE IF res.kind = "malformed"
    THEN [response |-> NoResponse, logs |-> <<MalformedXML>>]
    ELSE [response |-> res, logs |-> <<>>]

send_command(res) ==
    IF res.kind = "ConnectTimeout" THEN [response |-> NoResponse, logs |-> <<>>]
    ELSE IF res.kind = "RequestException"
    THEN [response |-> NoResponse, logs |-> <<NoConnection>>]
    ELSE IF res.kind = "None" THEN [response |-> NoResponse, logs |-> <<>>]
    ELSE IF res.kind = "malformed"
    THEN [response |-> NoResponse, logs |-> <<MalformedXML>>]
    ELSE [response |-> res, logs |-> <<>>]

----------------------------------------------------------------------------
(* update()                                                                *)

\* the attributes of the object, as one record
self ==
    [dynamiceq |-> dynamiceq, dynamiceq_control |-> dynamiceq_control,
     reflevoffset |-> reflevoffset, reflevoffset_control |-> reflevoffset_control,
     dynamicvol |-> dynamicvol, dynamicvol_control |-> dynamicvol_control,
     multeq |-> multeq, multeq_control |-> multeq_control]

valid_params == <<"dynamiceq", "reflevoffset", "dynamicvol", "multeq">>

Command(name, list) == [name |-> name, list |-> list]

\* the GetAudyssey command update() builds
GetAudyssey ==
    Command("GetAudyssey", [i \in 1..Len(valid_params) |-> <<valid_params[i], None>>])

\* the if/elif chain on the param's name: [self, exc]
SetValue(s, param) ==
    IF param.name = "multeq"
    THEN [self |-> [s EXCEPT !.multeq = Get(MULTI_EQ_MAP, param.text).value],
          exc |-> NoExc]
    ELSE IF param.name = "dynamiceq"
    THEN IF param.text # None
         THEN LET n == PyInt(param.text)
              IN  IF n.exc # NoExc
                  THEN [self |-> s, exc |-> n.exc]
                  ELSE [self |-> [s EXCEPT !.dynamiceq = PyBool(n.value)],
                        exc |-> NoExc]
         ELSE [self |-> [s EXCEPT !.dynamiceq = None], exc |-> NoExc]
    ELSE IF param.name = "reflevoffset"
    THEN IF s.dynamiceq = False
         THEN [self |-> [s EXCEPT !.reflevoffset = False], exc |-> NoExc]
         ELSE [self |-> [s EXCEPT !.reflevoffset =
                                      Get(REF_LVL_OFFSET_MAP, param.text).value],
               exc |-> NoExc]
    ELSE IF param.name = "dynamicvol"
    THEN [self |-> [s EXCEPT !.dynamicvol = Get(DYNAMIC_VOLUME_MAP, param.text).value],
          exc |-> NoExc]
    ELSE [self |-> s, exc |-> NoExc]

\* a setattr that is not guarded by the presence of the attribute: a param
\* without control resets <name>_control to None
SetControlOrClear(s, param) ==
    IF param.control # None
    THEN LET n == PyInt(param.control)
         IN  IF n.exc # NoExc
             THEN [self |-> s, exc |-> n.exc]
             ELSE [self |-> [s EXCEPT ![param.name \o "_control"] = PyBool(n.value)],
                   exc |-> NoExc]
    ELSE [self |-> [s EXCEPT ![param.name \o "_control"] = None], exc |-> NoExc]

\* the setattr of <name>_control: [self, exc]
SetControl(s, param) ==
    IF param.control # None
    THEN LET n == PyInt(param.control)
         IN  IF n.exc # NoExc
             THEN [self |-> s, exc |-> n.exc]
             ELSE [self |-> [s EXCEPT ![param.name \o "_control"] = PyBool(n.value)],
                   exc |-> NoExc]
    ELSE [self |-> s, exc |-> NoExc]

InValidParams(name) == \E i \in 1..Len(valid_params) : valid_params[i] = name

\* one iteration of the loop over the list's children: [self, exc]
ProcessParam(s, param) ==
    IF ~InValidParams(param.name)
    THEN [self |-> s, exc |-> NoExc]
    ELSE LET v == SetValue(s, param)
         IN  IF v.exc # NoExc THEN v ELSE SetControl(v.self, param)

RECURSIVE ProcessParams(_, _)
\* the loop: it ends at the first exception, keeping what was assigned so far
ProcessParams(s, params) ==
    IF params = <<>>
    THEN [self |-> s, exc |-> NoExc]
    ELSE LET r == ProcessParam(s, Head(params))
         IN  IF r.exc # NoExc THEN r ELSE ProcessParams(r.self, Tail(params))

\* a test that looks for the cmd element alone
NoCmd(response) == ~response.cmd

\* response.find("./cmd/list") is None
NoList(response) == ~(response.cmd /\ response.list)

\* update() on the parsed response: [self, ret, exc]
UpdateFrom(s, response) ==
    IF response = NoResponse
    THEN [self |-> s, ret |-> False, exc |-> NoExc]
    ELSE IF NoList(response)
    THEN [self |-> s, ret |-> False, exc |-> NoExc]
    ELSE LET r == ProcessParams(s, response.params)
         IN  IF r.exc # NoExc
             THEN [self |-> r.self, ret |-> None, exc |-> r.exc]
             ELSE [self |-> r.self, ret |-> True, exc |-> NoExc]

\* the attributes after the call
Store(s) ==
    /\ dynamiceq' = s.dynamiceq
    /\ dynamiceq_control' = s.dynamiceq_control
    /\ reflevoffset' = s.reflevoffset
    /\ reflevoffset_control' = s.reflevoffset_control
    /\ dynamicvol' = s.dynamicvol
    /\ dynamicvol_control' = s.dynamicvol_control
    /\ multeq' = s.multeq
    /\ multeq_control' = s.multeq_control

\* what every call records of the call before it
Called(name, setting) ==
    /\ op' = name
    /\ arg' = setting
    /\ after_update' = (op = "update" /\ ret = True)

update ==
    \E res \in GetResults :
        \E sc \in {send_command(res)} :
            \E u \in {UpdateFrom(self, sc.response)} :
                /\ Called("update", None)
                /\ result' = res
                /\ sent' = <<GetAudyssey>>
                /\ logs' = sc.logs
                /\ Store(u.self)
                /\ ret' = u.ret
                /\ exc' = u.exc
                /\ updated' = (updated \/ u.ret = True)

----------------------------------------------------------------------------
(* The setters                                                             *)

\* a _set_audyssey that posts the command again when the first send gave
\* no response
_set_audyssey_retry(parameter, value, res) ==
    LET sc == send_command(res)
        command == Command("SetAudyssey", << <<parameter, Str(value)>> >>)
    IN  [ret  |-> IF sc.response = NoResponse THEN False
                  ELSE IF sc.response.cmd /\ sc.response.text = "OK" THEN True
                  ELSE False,
         sent |-> IF sc.response = NoResponse THEN <<command, command>>
                  ELSE <<command>>,
         logs |-> sc.logs]

\* _set_audyssey: [ret, sent, logs].  A response without a cmd element ends
\* in the AttributeError the method catches, and so in False.
_set_audyssey(parameter, value, res) ==
    LET sc == send_command(res)
    IN  [ret  |-> IF sc.response = NoResponse THEN False
                  ELSE IF sc.response.cmd /\ sc.response.text = "OK" THEN True
                  ELSE False,
         sent |-> << Command("SetAudyssey", << <<parameter, Str(value)>> >>) >>,
         logs |-> sc.logs]

\* the call returns None after one _set_audyssey, the attributes being s
Returned(s, res, r) ==
    /\ Store(s)
    /\ result' = res
    /\ ret' = None
    /\ exc' = NoExc
    /\ sent' = r.sent
    /\ logs' = r.logs
    /\ UNCHANGED updated

\* the call ends in exception e before anything is sent
Raised(e) ==
    /\ UNCHANGED fields
    /\ result' = NotSent
    /\ ret' = None
    /\ exc' = e
    /\ sent' = <<>>
    /\ logs' = <<>>
    /\ UNCHANGED updated

\* the call returns None without sending anything
Skipped ==
    /\ UNCHANGED fields
    /\ result' = NotSent
    /\ ret' = None
    /\ exc' = NoExc
    /\ sent' = <<>>
    /\ logs' = <<>>
    /\ UNCHANGED updated

\* a dynamiceq_off that also forces reflevoffset to the sentinel
dynamiceq_off_forcing ==
    \E res \in SetResults :
        \E r \in {_set_audyssey("dynamiceq", "0", res)} :
            /\ Called("dynamiceq_off", None)
            /\ Returned(IF r.ret = True
                        THEN [self EXCEPT !.dynamiceq = False, !.reflevoffset = False]
                        ELSE self,
                        res, r)

dynamiceq_off ==
    \E res \in SetResults :
        \E r \in {_set_audyssey("dynamiceq", "0", res)} :
            /\ Called("dynamiceq_off", None)
            /\ Returned(IF r.ret = True THEN [self EXCEPT !.dynamiceq = False] ELSE self,
                        res, r)

\* a dynamiceq_on that forgets the setting when the device does not confirm
dynamiceq_on_resetting ==
    \E res \in SetResults :
        \E r \in {_set_audyssey("dynamiceq", "1", res)} :
            /\ Called("dynamiceq_on", None)
            /\ Returned(IF r.ret = True
                        THEN [self EXCEPT !.dynamiceq = True]
                        ELSE [self EXCEPT !.dynamiceq = None],
                        res, r)

dynamiceq_on ==
    \E res \in SetResults :
        \E r \in {_set_audyssey("dynamiceq", "1", res)} :
            /\ Called("dynamiceq_on", None)
            /\ Returned(IF r.ret = True THEN [self EXCEPT !.dynamiceq = True] ELSE self,
                        res, r)

\* a setter of a labelled setting: the look-up of the label comes first, and
\* the request is sent only when the look-up did not raise
SetLabelled(attribute, labels, setting) ==
    \E code \in {Get(labels, setting)} :
        IF code.exc # NoExc
        THEN Raised(code.exc)
        ELSE \E res \in SetResults :
                 \E r \in {_set_audyssey(attribute, code.value, res)} :
                     Returned(IF r.ret = True
                              THEN [self EXCEPT ![attribute] = setting]
                              ELSE self,
                              res, r)

set_multieq(setting) ==
    /\ Called("set_multieq", setting)
    /\ SetLabelled("multeq", MULTI_EQ_MAP_LABELS, setting)

\* a guard that lets an unknown dynamiceq through: self.dynamiceq is not False
DynamicEqNotOff(value) == value # False

\* the guard of set_reflevoffset: self.dynamiceq is True
DynamicEqOn(value) == value = True

set_reflevoffset(setting) ==
    /\ Called("set_reflevoffset", setting)
    /\ IF DynamicEqOn(dynamiceq)
       THEN SetLabelled("reflevoffset", REF_LVL_OFFSET_MAP_LABELS, setting)
       ELSE Skipped

set_dynamicvol(setting) ==
    /\ Called("set_dynamicvol", setting)
    /\ SetLabelled("dynamicvol", DYNAMIC_VOLUME_MAP_LABELS, setting)

----------------------------------------------------------------------------

Init ==
    /\ dynamiceq = None
    /\ dynamiceq_control = None
    /\ reflevoffset = None
    /\ reflevoffset_control = None
    /\ dynamicvol = None
    /\ dynamicvol_control = None
    /\ multeq = None
    /\ multeq_control = None
    /\ op = "__init__"
    /\ arg = None
    /\ result = NotSent
    /\ ret = None
    /\ exc = NoExc
    /\ sent = <<>>
    /\ logs = <<>>
    /\ after_update = FALSE
    /\ updated = FALSE

Next ==
    \/ update
    \/ dynamiceq_off
    \/ dynamiceq_on
    \/ \E setting \in Settings : set_multieq(setting)
    \/ \E setting \in Settings : set_reflevoffset(setting)
    \/ \E setting \in Settings : set_dynamicvol(setting)

Spec == Init /\ [][Next]_vars

----------------------------------------------------------------------------
(* The claims                                                              *)

\* the labels of a table, the code of a label, the label of a wire text
Labels(map) == {map.items[key] : key \in DOMAIN map.items}

Code(map, label) == CHOOSE key \in DOMAIN map.items : map.items[key] = label

Label(map, text) == IF text \in DOMAIN map.items THEN map.items[text] ELSE None

Setters ==
    {"dynamiceq_on", "dynamiceq_off", "set_multieq", "set_reflevoffset", "set_dynamicvol"}

\* the response of the last call is a document with a cmd/list node
HasList(res) == res.kind = "xml" /\ res.cmd /\ res.list

\* the device answered the last call with top-level cmd text "OK"
AnsweredOK(res) == res.kind = "xml" /\ res.cmd /\ res.text = "OK"

\* a list that reports setting name with wire text text
Reports(res, name, text) ==
    /\ HasList(res)
    /\ \E i \in DOMAIN res.params :
           res.params[i].name = name /\ res.params[i].text = text

\* a list that has a param element for setting name
Names(res, name) ==
    HasList(res) /\ \E i \in DOMAIN res.params : res.params[i].name = name

\* C1: in every reachable state, whenever dynamiceq is exactly False the
\* field reflevoffset is the sentinel False and never one of the labels
\* 0dB, +5dB, +10dB, +15dB.  (A reflevoffset that no response has reported
\* yet, still None, is not held against the claim.)
C1_RefLevOffsetForcedFalse ==
    dynamiceq = False
        => (reflevoffset \in {False, None} /\ reflevoffset \notin Labels(REF_LVL_OFFSET_MAP))

\* C2: an update() whose response has cmd/list with dynamiceq reported as
\* "0" and reflevoffset reported as any code, in any order, ends with
\* reflevoffset equal to the sentinel False.
C2_UpdateForcesFalse ==
    (op = "update" /\ Reports(result, "dynamiceq", "0") /\ Names(result, "reflevoffset"))
        => reflevoffset = False

\* C3: while dynamiceq is not exactly True, set_reflevoffset(label) sends no
\* command, returns silently and leaves all eight fields unchanged.
C3_SetRefLevOffsetNoOp ==
    [][(op' = "set_reflevoffset" /\ dynamiceq # True)
          => (sent' = <<>> /\ exc' = NoExc /\ ret' = None /\ UNCHANGED fields)]_vars

\* C3, reached: set_reflevoffset was called on a populated object whose
\* dynamiceq is False, and nothing was sent.
C3_Witness ==
    /\ op = "set_reflevoffset" /\ arg = "+10dB"
    /\ dynamiceq = False /\ multeq = "Reference" /\ reflevoffset = "+10dB"
    /\ sent = <<>> /\ exc = NoExc

\* C4: no call of a public method ends in a propagated exception.
C4_NoException == exc = NoExc

\* C5: an enumerated setter called with a label of its table sends the wire
\* code of that label, and when the device answers "OK" the field equals the
\* label after the call.
C5_SetterSendsCode ==
    /\ (op = "set_multieq" /\ arg \in Labels(MULTI_EQ_MAP))
          => /\ sent = << Command("SetAudyssey",
                                  << <<"multeq", Code(MULTI_EQ_MAP, arg)>> >>) >>
             /\ AnsweredOK(result) => multeq = arg
    /\ (op = "set_dynamicvol" /\ arg \in Labels(DYNAMIC_VOLUME_MAP))
          => /\ sent = << Command("SetAudyssey",
                                  << <<"dynamicvol", Code(DYNAMIC_VOLUME_MAP, arg)>> >>) >>
             /\ AnsweredOK(result) => dynamicvol = arg
    /\ (op = "set_reflevoffset" /\ dynamiceq = True /\ arg \in Labels(REF_LVL_OFFSET_MAP))
          => /\ sent = << Command("SetAudyssey",
                                  << <<"reflevoffset", Code(REF_LVL_OFFSET_MAP, arg)>> >>) >>
             /\ AnsweredOK(result) => reflevoffset = arg

\* C6: round trip.  A successful update(), then a setter call for a setting,
\* then an update() whose response reports the value the setter implied:
\* the setter call has returned and, the last update() returning True, the
\* field equals the label (or boolean) used in the setter.
C6_RoundTrip ==
    [][(after_update /\ op' = "update" /\ ret' = True)
          => /\ (op = "set_multieq" /\ arg \in Labels(MULTI_EQ_MAP)
                    /\ Reports(result', "multeq", Code(MULTI_EQ_MAP, arg)))
                   => (exc = NoExc /\ multeq' = arg)
             /\ (op = "set_dynamicvol" /\ arg \in Labels(DYNAMIC_VOLUME_MAP)
                    /\ Reports(result', "dynamicvol", Code(DYNAMIC_VOLUME_MAP, arg)))
                   => (exc = NoExc /\ dynamicvol' = arg)
             /\ (op = "set_reflevoffset" /\ arg \in Labels(REF_LVL_OFFSET_MAP)
                    /\ Reports(result', "reflevoffset", Code(REF_LVL_OFFSET_MAP, arg)))
                   => (exc = NoExc /\ reflevoffset' = arg)
             /\ (op = "dynamiceq_on" /\ Reports(result', "dynamiceq", "1"))
                   => (exc = NoExc /\ dynamiceq' = True)
             /\ (op = "dynamiceq_off" /\ Reports(result', "dynamiceq", "0"))
                   => (exc = NoExc /\ dynamiceq' = False)]_vars

\* C7: an update() whose send yields no parsed response (timeout, request
\* error, no body, malformed XML) or whose response lacks cmd/list returns
\* False and leaves all eight fields as they were.
C7_UpdateWithoutList ==
    [][(op' = "update" /\ ~HasList(result'))
          => (ret' = False /\ exc' = NoExc /\ UNCHANGED fields)]_vars

\* C7, reached: update() returned False on a document with a cmd element
\* but no list, on an object whose fields an earlier update() had set.
C7_Witness ==
    /\ op = "update" /\ result = Document(TRUE, None, FALSE, <<>>)
    /\ ret = False
    /\ multeq = "Reference" /\ dynamiceq = True /\ multeq_control = True

\* C8: a setter whose device response is anything but a document with
\* top-level cmd text "OK" returns with all eight fields unchanged.
C8_SetterRejected ==
    [][(op' \in Setters /\ ~AnsweredOK(result'))
          => (exc' = NoExc /\ UNCHANGED fields)]_vars

\* C9: set_multieq, set_dynamicvol, or set_reflevoffset with dynamiceq True,
\* called with a label absent from the reverse map, performs one send with
\* the wire value "None"; when the device rejects it the setter returns
\* normally and no field changes.
C9_UnknownLabel ==
    [][\A name \in {"multeq", "dynamicvol", "reflevoffset"} :
          ( /\ \/ op' = "set_multieq" /\ name = "multeq"
                  /\ arg' \notin Labels(MULTI_EQ_MAP)
               \/ op' = "set_dynamicvol" /\ name = "dynamicvol"
                  /\ arg' \notin Labels(DYNAMIC_VOLUME_MAP)
               \/ op' = "set_reflevoffset" /\ name = "reflevoffset"
                  /\ dynamiceq = True /\ arg' \notin Labels(REF_LVL_OFFSET_MAP) )
          => /\ sent' = << Command("SetAudyssey", << <<name, "None">> >>) >>
             /\ ~AnsweredOK(result') => (exc' = NoExc /\ UNCHANGED fields)]_vars

\* the boolean of a control attribute "0" or "1"
Flag(control) == IF control = "0" THEN False ELSE True

\* C10: an update() whose response has cmd/list returns True and sets each
\* reported field from its wire code: multeq and dynamicvol to the label of
\* the code (None outside the table), dynamiceq to False/True for "0"/"1"
\* (None for absent text), reflevoffset to its label when dynamiceq is not
\* False (neither before nor after the call), each *_control flag to the
\* boolean of the control attribute; from the all-null state the example
\* response gives Reference, True, +10dB, Off and four True flags.
C10_UpdateSetsFields ==
    [][(op' = "update" /\ HasList(result'))
          => /\ ret' = True
             /\ \A i \in DOMAIN result'.params :
                    LET param == result'.params[i]
                    IN  /\ param.name = "multeq"
                            => multeq' = Label(MULTI_EQ_MAP, param.text)
                        /\ param.name = "dynamicvol"
                            => dynamicvol' = Label(DYNAMIC_VOLUME_MAP, param.text)
                        /\ (param.name = "dynamiceq" /\ param.text = "0")
                            => dynamiceq' = False
                        /\ (param.name = "dynamiceq" /\ param.text = "1")
                            => dynamiceq' = True
                        /\ (param.name = "dynamiceq" /\ param.text = None)
                            => dynamiceq' = None
                        /\ (param.name = "reflevoffset"
                                /\ dynamiceq # False /\ dynamiceq' # False)
                            => reflevoffset' = Label(REF_LVL_OFFSET_MAP, param.text)
                        /\ (param.name = "multeq" /\ param.control \in {"0", "1"})
                            => multeq_control' = Flag(param.control)
                        /\ (param.name = "dynamicvol" /\ param.control \in {"0", "1"})
                            => dynamicvol_control' = Flag(param.control)
                        /\ (param.name = "dynamiceq" /\ param.control \in {"0", "1"})
                            => dynamiceq_control' = Flag(param.control)
                        /\ (param.name = "reflevoffset" /\ param.control \in {"0", "1"})
                            => reflevoffset_control' = Flag(param.control)
             /\ (fields = <<None, None, None, None, None, None, None, None>>
                    /\ result'.params = ExampleParams)
                   => fields' = <<True, True, "+10dB", True, "Off", True,
                                  "Reference", True>>]_vars


\* C11: every call of a public method invokes send_post_command at most
\* once, whatever the outcome of that send; no failed request is retried
\* within the call.
C11_AtMostOneSend == Len(sent) <= 1

\* C11, reached: a setter called after an update(), whose one request timed
\* out, ended with that single send.
C11_Witness ==
    /\ op = "dynamiceq_on" /\ result = Failure("ConnectTimeout")
    /\ Len(sent) = 1 /\ sent[1].name = "SetAudyssey"
    /\ after_update


\* C12: in every reachable state in which no update() call has yet returned
\* True, all eight fields are None, whatever setter calls have been made
\* and whatever the device answered to them.
C12_NoneUntilUpdated ==
    ~updated => fields = <<None, None, None, None, None, None, None, None>>


\* C13: when the transport raises a connect timeout during update(),
\* update() returns False, logs nothing and changes no field; when it raises
\* any other request error, update() returns False, changes no field, and
\* exactly one error line naming the endpoint and the host is logged.
C13_UpdateTransportErrors ==
    [][op' = "update"
          => /\ result'.kind = "ConnectTimeout"
                   => (ret' = False /\ exc' = NoExc /\ logs' = <<>> /\ UNCHANGED fields)
             /\ result'.kind = "RequestException"
                   => /\ ret' = False /\ exc' = NoExc /\ UNCHANGED fields
                      /\ Len(logs') = 1
                      /\ logs'[1][2] = COMMAND_ENDPOINT
                      /\ logs'[1][3] = "host"]_vars

\* C13, reached: update() on an object with known settings met a request
\* error, returned False and logged one line.
C13_Witness ==
    /\ op = "update" /\ result = Failure("RequestException")
    /\ ret = False /\ Len(logs) = 1
    /\ updated /\ dynamiceq = True /\ reflevoffset = "+10dB"


\* the seven fields other than dynamiceq
others ==
    <<dynamiceq_control, reflevoffset, reflevoffset_control,
      dynamicvol, dynamicvol_control, multeq, multeq_control>>

SettingNames == {"dynamiceq", "reflevoffset", "dynamicvol", "multeq"}

\* C15: during a successful update(), a param with a name outside the four
\* settings changes no field even if it carries a control attribute; a
\* setting whose param is absent keeps its value and its *_control flag; a
\* recognized param without a control attribute leaves its flag unchanged,
\* and one with a control attribute sets its own sibling flag only.
C15_UpdateFrame ==
    [][(op' = "update" /\ ret' = True)
          => LET params == result'.params
             IN  /\ \A name \in SettingNames :
                        LET control == name \o "_control"
                        IN  /\ ~Names(result', name)
                                => (self'[name] = self[name]
                                        /\ self'[control] = self[control])
                            /\ (\A i \in DOMAIN params :
                                    params[i].name = name => params[i].control = None)
                                => self'[control] = self[control]
                            /\ \A i \in DOMAIN params :
                                   (params[i].name = name
                                        /\ params[i].control \in {"0", "1"})
                                       => self'[control] = Flag(params[i].control)
                 /\ (\A i \in DOMAIN params : params[i].name \notin SettingNames)
                        => UNCHANGED fields]_vars

\* C15, reached: a successful update() read an unknown param carrying
\* control="1" and a dynamiceq param without control; dynamiceq changed,
\* its flag and the absent settings kept what an earlier update() had set.
C15_Witness ==
    /\ op = "update" /\ ret = True
    /\ result.params = << Param("bass", "1", "1"), Param("dynamiceq", "0", None) >>
    /\ dynamiceq = False /\ dynamiceq_control = True
    /\ multeq = "Reference" /\ multeq_control = True /\ dynamicvol = "Off"


\* C16: update() is all-or-nothing: if the call does not return True (it
\* returns False, or stops in the param list on text or a control attribute
\* that is no integer), none of the eight fields differs from its value
\* before the call.
C16_UpdateAllOrNothing ==
    [][(op' = "update" /\ ret' # True) => UNCHANGED fields]_vars

\* C17: update() is idempotent with respect to the response: applying the
\* same successful response twice in a row leaves the eight fields as
\* applying it once did, for every order of the param elements.
C17_UpdateIdempotent ==
    [][(op = "update" /\ ret = True
            /\ op' = "update" /\ ret' = True /\ result' = result)
          => UNCHANGED fields]_vars


\* C18: once a setting field (multeq, dynamicvol, reflevoffset or
\* dynamiceq) has become known (non-None) it never returns to None in any
\* later state, whatever calls follow and whatever the device reports.
C18_KnownStaysKnown ==
    [][\A name \in SettingNames : self[name] # None => self'[name] # None]_vars

\* the wire text of a param for setting name has no value: no text for
\* dynamiceq, a code outside the table for the labelled settings
Valueless(name, text) ==
    IF name = "dynamiceq" THEN text = None
    ELSE IF name = "multeq" THEN text \notin DOMAIN MULTI_EQ_MAP.items
    ELSE IF name = "dynamicvol" THEN text \notin DOMAIN DYNAMIC_VOLUME_MAP.items
    ELSE text \notin DOMAIN REF_LVL_OFFSET_MAP.items

\* C18, amended: a known setting field returns to None only in an update()
\* whose response reports that setting without a value (a code outside its
\* table, or no text for dynamiceq); no other call and no other response
\* makes a known field None.
C18_KnownUnlessValueless ==
    [][\A name \in SettingNames :
          (self[name] # None /\ self'[name] = None)
              => /\ op' = "update"
                 /\ HasList(result')
                 /\ \E i \in DOMAIN result'.params :
                        /\ result'.params[i].name = name
                        /\ Valueless(name, result'.params[i].text)]_vars

\* C18, reached: multeq, known as Reference since an earlier update() (its
\* flag is still True), is None after an update() reporting code 4, while
\* the settings not reported stay known.
C18_Witness ==
    /\ op = "update" /\ ret = True
    /\ result.params = << Param("multeq", "4", None) >>
    /\ multeq = None /\ multeq_control = True
    /\ dynamicvol = "Off" /\ dynamiceq # None /\ reflevoffset # None

====
